---- MODULE Spec2Model ----
(***************************************************************************)
(* A model of terrain_generator.py: the Wave Function Collapse solver      *)
(* (wave_function_collapse), and the pipeline main() runs after it         *)
(* (generate_heightfield, assign_biomes, export_obj).                      *)
(*                                                                         *)
(* Numbers.  The program computes with floats; the model computes with     *)
(* integers at a fixed scale:                                              *)
(*   - a tile weight is kept in units of 1/600 (base weight in tenths      *)
(*     times max(0.05, matches/30) in sixtieths);                          *)
(*   - a draw of rng.uniform(0, total) is total * u / UDen for a draw      *)
(*     u in 0..UDen, and "current >= pick" is compared cross-multiplied;   *)
(*   - entropy is computed in fixed point (see entropy).                   *)
(* Order of a set.  Python iterates a set of strings in an order that      *)
(* depends on the process's string-hash seed; wherever the program turns   *)
(* a set into a list the model takes any order of its members.             *)
(***************************************************************************)
EXTENDS Integers, Sequences, FiniteSets, TLC

VARIABLES pc, width, height, scale,
          tile_weights, grid, stack, allowed, nbrs, cxy, candidates, collapses, tiles,
          heights, biomes, obj_lines, ix, iy, error,
          twin, call, ret, draws, pushes

solverVars == <<tile_weights, grid, stack, allowed, nbrs, cxy, candidates, collapses, tiles>>
stageVars == <<scale, heights, biomes, obj_lines, ix, iy, error>>
\* cxy: the cell <<cx, cy>> popped from the stack (line 164)
\* candidates: the list built by the scan (lines 148-152), as <<cell, entropy>>
\* twin: the grid and the tiles of a second run of the solver (SpecDet);
\* call, ret: the arguments and the result of a function run on its own
\* draws: the calls made on rng so far, in order (kept by SpecDraws)
\* pushes: how many times line 174 has run since the solver was called
auxVars == <<twin, call, ret, draws, pushes>>
vars == <<pc, width, height, solverVars, stageVars, auxVars>>

(***************************************************************************)
(* Bounds of the model.                                                    *)
(***************************************************************************)
MaxCells == 4
MaxStageCells == 2
MaxObjDim == 3
MaxRowLen == 12
MaxOceanDim == 3
UDen == 4

(***************************************************************************)
(* The tile catalog, TILE_TYPES.                                           *)
(***************************************************************************)
TileNames == {"ocean", "shore", "lowland", "highland", "mountain", "polar"}

allowed_neighbors ==
  [t \in TileNames |->
     CASE t = "ocean"    -> {"ocean", "shore", "lowland"}
       [] t = "shore"    -> {"ocean", "shore", "lowland"}
       [] t = "lowland"  -> {"shore", "lowland", "highland"}
       [] t = "highland" -> {"lowland", "highland", "mountain"}
       [] t = "mountain" -> {"highland", "mountain", "polar"}
       [] t = "polar"    -> TileNames]

\* height_range, in metres
height_range ==
  [t \in TileNames |->
     CASE t = "ocean"    -> <<-6000, -200>>
       [] t = "shore"    -> <<-200, 50>>
       [] t = "lowland"  -> <<0, 800>>
       [] t = "highland" -> <<400, 2000>>
       [] t = "mountain" -> <<1500, 6500>>
       [] t = "polar"    -> <<0, 3000>>]

\* TileType.weight, in tenths
BaseWeight10 ==
  [t \in TileNames |->
     CASE t = "ocean"    -> 10
       [] t = "shore"    -> 11
       [] t = "lowland"  -> 14
       [] t = "highland" -> 10
       [] t = "mountain" -> 7
       [] t = "polar"    -> 4]

\* PLANET_PROFILES: mean and stdev in metres, roughness and weight in tenths
PLANET_PROFILES ==
  << [name |-> "Earth",   mean |-> 200,  stdev |-> 1200, roughness |-> 6, weight |-> 10],
     [name |-> "Mars",    mean |-> -800, stdev |-> 2500, roughness |-> 7, weight |-> 9],
     [name |-> "Moon",    mean |-> 0,    stdev |-> 1700, roughness |-> 8, weight |-> 7],
     [name |-> "Venus",   mean |-> 0,    stdev |-> 1100, roughness |-> 5, weight |-> 6],
     [name |-> "Mercury", mean |-> 100,  stdev |-> 2000, roughness |-> 9, weight |-> 6],
     [name |-> "Europa",  mean |-> -300, stdev |-> 800,  roughness |-> 4, weight |-> 5],
     [name |-> "Titan",   mean |-> -500, stdev |-> 900,  roughness |-> 4, weight |-> 5] >>

NumSamples == 30

\* The values a draw of rng.gauss is taken at, as multiples of its sigma
\* around its mu.
GaussDraws == {-2, 2}

\* Numbers of samples in range, per tile, that _initial_tile_weights is run
\* on (each tile counts its own 30 samples, so any number in 0..30 can
\* happen for any tile): every sample in range; a draw near the expected
\* numbers; the same with no polar and no shore sample in range.
InRangeCounts ==
  { [t \in TileNames |-> NumSamples],
    [t \in TileNames |->
       CASE t = "ocean"    -> 13
         [] t = "shore"    -> 1
         [] t = "lowland"  -> 4
         [] t = "highland" -> 6
         [] t = "mountain" -> 5
         [] t = "polar"    -> 12],
    [t \in TileNames |->
       CASE t = "ocean"    -> 16
         [] t = "shore"    -> 0
         [] t = "lowland"  -> 9
         [] t = "highland" -> 3
         [] t = "mountain" -> 7
         [] t = "polar"    -> 0] }

\* a list of 30 samples for tile t with m of them in range: those in range
\* are the two limits of the range, in turn, the others lie one metre
\* outside them
SamplesWith(t, m) ==
  [i \in 1 .. NumSamples |->
     IF i <= m
     THEN (IF i % 2 = 1 THEN height_range[t][1] ELSE height_range[t][2])
     ELSE (IF i % 2 = 1 THEN height_range[t][1] - 1 ELSE height_range[t][2] + 1)]

\* line 114, for every tile: the lists of samples of the model
SampleCases ==
  {[t \in TileNames |-> SamplesWith(t, counts[t])] : counts \in InRangeCounts}

\* mutant of line 116: the limits of the range are excluded
MatchesExclusive(samples, t) ==
  Len(SelectSeq(samples,
                LAMBDA sample : height_range[t][1] < sample /\ sample < height_range[t][2]))

\* lines 115-117: matches
Matches(samples, t) ==
  Len(SelectSeq(samples,
                LAMBDA sample : height_range[t][1] <= sample /\ sample <= height_range[t][2]))

\* matches, per tile, for the lists of samples of the model
MatchCases ==
  {[t \in TileNames |-> Matches(samples[t], t)] : samples \in SampleCases}

\* f itself, held as a table of its values: a function that is applied in
\* every state is computed once
Tabulated(f) == f @@ << >>

Max(a, b) == IF a >= b THEN a ELSE b
Min(a, b) == IF a <= b THEN a ELSE b

\* tile.weight * max(0.05, matches / len(samples)), in units of 1/600
EmpiricalWeight(t, matches) == BaseWeight10[t] * Max(3, 2 * matches)

\* the weight tables _initial_tile_weights can return
WeightTables ==
  {[t \in TileNames |-> EmpiricalWeight(t, matches[t])] : matches \in MatchCases}

(***************************************************************************)
(* The grid.  A cell is <<x, y>>; grid[y][x] of the program is grid[c].    *)
(***************************************************************************)
Cells(w, h) == (0 .. w - 1) \X (0 .. h - 1)

\* range(height) x range(width), y outer: the order of the scan
RowMajor(w, h) ==
  IF w <= 0 \/ h <= 0 THEN << >>
  ELSE [i \in 1 .. w * h |-> <<(i - 1) % w, (i - 1) \div w>>]

\* _neighbors: (1,0), (-1,0), (0,1), (0,-1), clipped to the grid
_neighbors(x, y, w, h) ==
  LET cand == << <<x + 1, y>>, <<x - 1, y>>, <<x, y + 1>>, <<x, y - 1>> >>
      InB(c) == 0 <= c[1] /\ c[1] < w /\ 0 <= c[2] /\ c[2] < h
  IN  SelectSeq(cand, InB)

(***************************************************************************)
(* Orders of a set, sums, and the weighted choice.                         *)
(***************************************************************************)
\* every list that holds each member of S once: the orders in which a
\* Python set of strings can be iterated
RECURSIVE Orderings(_)
Orderings(S) ==
  IF S = {} THEN {<< >>}
  ELSE UNION {{<<t>> \o s : s \in Orderings(S \ {t})} : t \in S}

RECURSIVE SumWeights(_, _)
SumWeights(S, tw) ==
  IF S = {} THEN 0
  ELSE LET t == CHOOSE e \in S : TRUE IN tw[t] + SumWeights(S \ {t}, tw)

RECURSIVE SumSeq(_)
SumSeq(ws) == IF ws = << >> THEN 0 ELSE Head(ws) + SumSeq(Tail(ws))

\* mutant of line 90: `current > pick`
RECURSIVE WalkItemsStrict(_, _, _, _, _, _)
WalkItemsStrict(names, ws, i, current, total, u) ==
  IF i > Len(names) THEN names[Len(names)]
  ELSE IF (current + ws[i]) * UDen > total * u THEN names[i]
       ELSE WalkItemsStrict(names, ws, i + 1, current + ws[i], total, u)

\* the loop of _weighted_choice from item i on, with `current` the running
\* sum before item i; pick = total * u / UDen
RECURSIVE WalkItems(_, _, _, _, _, _)
WalkItems(names, ws, i, current, total, u) ==
  IF i > Len(names) THEN names[Len(names)]
  ELSE IF (current + ws[i]) * UDen >= total * u THEN names[i]
       ELSE WalkItems(names, ws, i + 1, current + ws[i], total, u)

\* _weighted_choice(rng, items): items is the list of names with the list
\* of their weights, u the draw of rng.uniform
_weighted_choice(names, ws, u) == WalkItems(names, ws, 1, 0, SumSeq(ws), u)

(***************************************************************************)
(* entropy(cell).  The program computes -sum(p * log(p)) over p = w/total  *)
(* in floats and only compares the results.  The model computes the same   *)
(* sum as sum(w * (log2(total) - log2(w))) / total in units of 2^-20 bit   *)
(* (a change of base keeps the order): log2 is computed bit by bit, by     *)
(* squaring a mantissa in [1, 2) held in units of 2^-23, the products      *)
(* split so that they fit 32 bits.  For every weight table of the model    *)
(* the order and the ties of these values are those of the real numbers.   *)
(***************************************************************************)
RECURSIVE FloorLog2(_)
FloorLog2(n) == IF n < 2 THEN 0 ELSE 1 + FloorLog2(n \div 2)

\* m * m / 2^23 for m < 2^24
SquareQ(m) ==
  LET hi == m \div (2 ^ 12)
      lo == m % (2 ^ 12)
  IN  2 * hi * hi + (hi * lo) \div (2 ^ 10) + (lo * lo) \div (2 ^ 23)

RECURSIVE Log2Frac(_, _)
Log2Frac(m, k) ==
  IF k = 0 THEN 0
  ELSE LET sq == SquareQ(m)
       IN  IF sq >= 2 ^ 24 THEN 2 ^ (k - 1) + Log2Frac(sq \div 2, k - 1)
           ELSE Log2Frac(sq, k - 1)

\* log2(n) for 1 <= n < 2^14, in units of 2^-20
Log2Q(n) == LET e == FloorLog2(n) IN e * (2 ^ 20) + Log2Frac(n * 2 ^ (23 - e), 20)

\* floor(w * d / total), the product split so that it fits 32 bits
MulDiv(w, d, total) == w * (d \div total) + (w * (d % total)) \div total

RECURSIVE SumPLogP(_, _, _, _)
SumPLogP(S, tw, total, logTotal) ==
  IF S = {} THEN 0
  ELSE LET t == CHOOSE e \in S : TRUE
       IN  MulDiv(tw[t], logTotal - Log2Q(tw[t]), total)
             + SumPLogP(S \ {t}, tw, total, logTotal)

\* lines 140-145
entropy(cell, tw) ==
  IF Cardinality(cell) <= 1 THEN 0
  ELSE LET total == SumWeights(cell, tw)
       IN  SumPLogP(cell, tw, total, Log2Q(total))

\* entropy, tabulated
EntropyTable ==
  Tabulated([tw \in WeightTables |->
    Tabulated([cell \in SUBSET TileNames |-> entropy(cell, tw)])])

(***************************************************************************)
(* wave_function_collapse                                                  *)
(***************************************************************************)
\* mutants of the scan's test (len(grid[y][x]) >= 1, len(grid[y][x]) > 2)
IsCandidateAlsoCollapsed(cell) == Cardinality(cell) >= 1

IsCandidateAboveTwo(cell) == Cardinality(cell) > 2

\* the scan of the outer loop: len(grid[y][x]) > 1
IsCandidate(cell) == Cardinality(cell) > 1

\* candidates, as the list of cells in scan order
Candidates(g, w, h) == SelectSeq(RowMajor(w, h), LAMBDA c : IsCandidate(g[c]))

RECURSIVE MinOver(_, _)
MinOver(cs, f) ==
  IF Len(cs) = 1 THEN f[cs[1]]
  ELSE Min(f[cs[1]], MinOver(Tail(cs), f))

\* low_entropy: the candidates whose entropy equals the minimum
LowEntropy(g, w, h, tw) ==
  LET cands == Candidates(g, w, h)
      ent == [c \in Cells(w, h) |-> EntropyTable[tw][g[c]]]
      min_entropy == MinOver(cands, ent)
  IN  SelectSeq(cands, LAMBDA c : ent[c] = min_entropy)

\* mutant of lines 166-168: `allowed` is assigned, not updated, and holds
\* the list of one option only
AllowedUnionOfOne(options) == allowed_neighbors[CHOOSE o \in options : TRUE]

\* allowed: the union of allowed_neighbors over the options of a cell
AllowedUnion(options) == UNION {allowed_neighbors[o] : o \in options}

\* mutant of the update: on an empty intersection the neighbour is given
\* the allowed set instead of being left alone
NarrowResetOnEmpty(before, allow) ==
  LET after == before \cap allow
  IN  IF after = before THEN before ELSE IF after # {} THEN after ELSE allow

\* mutant of the update: the test `and after` dropped
NarrowUnguarded(before, allow) == before \cap allow

\* lines 170-173: the set a neighbour holds after one update
Narrow(before, allow) ==
  LET after == before \cap allow
  IN  IF after # before /\ after # {} THEN after ELSE before

\* the solver before its first line
SolverIdle ==
  /\ tile_weights = [t \in TileNames |-> 0]
  /\ grid = << >>
  /\ stack = << >>
  /\ allowed = {}
  /\ nbrs = << >>
  /\ cxy = << >>
  /\ candidates = << >>
  /\ collapses = 0
  /\ tiles = << >>

\* the later stages before they run
StagesIdle ==
  /\ heights = << >>
  /\ biomes = << >>
  /\ obj_lines = << >>
  /\ ix = 0
  /\ iy = 0
  /\ error = "none"
  /\ twin = << >>
  /\ pushes = 0
  /\ draws = << >>
  /\ call = << >>
  /\ ret = "none"

\* wave_function_collapse called on a grid of positive dimensions
Init ==
  /\ pc = "wfc_init"
  /\ \E w \in 1 .. MaxCells, h \in 1 .. MaxCells :
       /\ w * h <= MaxCells
       /\ width = w
       /\ height = h
  /\ scale = 1000
  /\ SolverIdle
  /\ StagesIdle

\* lines 135-138: _initial_tile_weights, then the grid of full sets
WfcInit ==
  /\ pc = "wfc_init"
  /\ \E tw \in WeightTables : tile_weights' = tw
  /\ grid' = [c \in Cells(width, height) |-> TileNames]
  /\ pc' = "wfc_scan"
  /\ UNCHANGED <<auxVars, stageVars, width, height, stack, allowed, nbrs, cxy, candidates, collapses, tiles>>

\* line 159: the tiles _weighted_choice returns for a cell holding
\* `options` at the draw u: one per order of the set
ChoicesAt(options, tw, u) ==
  {_weighted_choice(names, [k \in 1 .. Len(names) |-> tw[names[k]]], u) :
     names \in Orderings(options)}

\* ChoicesAt, tabulated
ChoiceTable ==
  Tabulated([tw \in WeightTables |->
    Tabulated([options \in SUBSET TileNames |->
      Tabulated([u \in 0 .. UDen |->
        IF options = {} THEN {} ELSE ChoicesAt(options, tw, u)])])])

\* lines 148-162: scan, pick a cell of least entropy, collapse it
Collapse ==
  /\ pc = "wfc_scan"
  /\ Candidates(grid, width, height) # << >>
  /\ LET low_entropy == LowEntropy(grid, width, height, tile_weights)
     IN  \E i \in 1 .. Len(low_entropy) :
           LET c == low_entropy[i]
               options == grid[c]
           IN  \E u \in 0 .. UDen :
                 \E choice \in ChoiceTable[tile_weights][options][u] :
                   /\ grid' = [grid EXCEPT ![c] = {choice}]
                   /\ stack' = <<c>>
  /\ collapses' = collapses + 1
  /\ pc' = "wfc_pop"
  /\ UNCHANGED <<auxVars, stageVars, width, height, tile_weights, allowed, nbrs, cxy, candidates, tiles>>

\* line 176: [[next(iter(cell)) for cell in row] for row in grid]; the
\* first member of a set in iteration order is any member of it
NextIterEach(g, w, h) ==
  IF \A c \in Cells(w, h) : Cardinality(g[c]) = 1
  THEN {[c \in Cells(w, h) |-> CHOOSE t \in g[c] : TRUE]}
  ELSE {t \in [Cells(w, h) -> TileNames] : \A c \in Cells(w, h) : t[c] \in g[c]}

\* lines 153-154 and 176: no candidate is left; return one tile per cell
LoopExit ==
  /\ pc = "wfc_scan"
  /\ Candidates(grid, width, height) = << >>
  /\ tiles' \in NextIterEach(grid, width, height)
  /\ pc' = "returned"
  /\ UNCHANGED <<auxVars, stageVars, width, height, tile_weights, grid, stack, allowed, nbrs, cxy, candidates, collapses>>

\* lines 163-169: pop a cell, compute what it allows, list its neighbours
Pop ==
  /\ pc = "wfc_pop"
  /\ stack # << >>
  /\ LET c == stack[Len(stack)]
     IN  /\ allowed' = AllowedUnion(grid[c])
         /\ nbrs' = _neighbors(c[1], c[2], width, height)
         /\ cxy' = c
  /\ stack' = SubSeq(stack, 1, Len(stack) - 1)
  /\ pc' = "wfc_nbr"
  /\ UNCHANGED <<auxVars, stageVars, width, height, tile_weights, grid, candidates, collapses, tiles>>

\* mutant of lines 169-174: the test of line 172 dropped for the push, every
\* neighbour in bounds is pushed
NeighborUpdatePushAlways ==
  /\ pc = "wfc_nbr"
  /\ nbrs # << >>
  /\ LET n == Head(nbrs)
     IN  /\ grid' = [grid EXCEPT ![n] = Narrow(grid[n], allowed)]
         /\ stack' = Append(stack, n)
  /\ pushes' = pushes + 1
  /\ nbrs' = Tail(nbrs)
  /\ UNCHANGED <<twin, call, ret, draws, stageVars, pc, width, height, tile_weights, allowed, cxy,
                 candidates, collapses, tiles>>

\* mutant of lines 169-174: line 174 dropped, a narrowed neighbour is not pushed
NeighborUpdateNoPush ==
  /\ pc = "wfc_nbr"
  /\ nbrs # << >>
  /\ LET n == Head(nbrs)
     IN  grid' = [grid EXCEPT ![n] = Narrow(grid[n], allowed)]
  /\ nbrs' = Tail(nbrs)
  /\ UNCHANGED <<auxVars, stageVars, pc, width, height, tile_weights, stack, allowed, cxy, candidates,
                 collapses, tiles>>

\* lines 169-174: one neighbour of the popped cell
NeighborUpdate ==
  /\ pc = "wfc_nbr"
  /\ nbrs # << >>
  /\ LET n == Head(nbrs)
         before == grid[n]
         after == Narrow(before, allowed)
     IN  /\ grid' = [grid EXCEPT ![n] = after]
         /\ stack' = IF after # before THEN Append(stack, n) ELSE stack
         /\ pushes' = IF after # before THEN pushes + 1 ELSE pushes
  /\ nbrs' = Tail(nbrs)
  /\ UNCHANGED <<twin, call, ret, draws, stageVars, pc, width, height, tile_weights, allowed, cxy,
                 candidates, collapses, tiles>>

\* the for loop over the neighbours is done: back to `while stack`
NeighborsDone ==
  /\ pc = "wfc_nbr"
  /\ nbrs = << >>
  /\ pc' = "wfc_pop"
  /\ UNCHANGED <<auxVars, stageVars, width, height, solverVars>>

\* line 163: the stack is empty, the propagation is over
PropagationDone ==
  /\ pc = "wfc_pop"
  /\ stack = << >>
  /\ pc' = "wfc_scan"
  /\ UNCHANGED <<auxVars, stageVars, width, height, solverVars>>

Next ==
  \/ WfcInit
  \/ Collapse
  \/ LoopExit
  \/ Pop
  \/ NeighborUpdate
  \/ NeighborsDone
  \/ PropagationDone

Spec == Init /\ [][Next]_vars

\* the solver is one sequential loop: whenever it has a next step it takes it
SpecFair == Spec /\ WF_vars(Next)

(***************************************************************************)
(* The choice of the cell, step by step.  Collapse above takes the ties    *)
(* of the entropies as those of the real numbers.  The program compares    *)
(* floats with ==, and entropy(cell) adds its terms in the iteration order *)
(* of the set: for a set of three tiles or more the sum depends on that    *)
(* order in its last bit, so two cells that hold the same set in different *)
(* orders can get different entropies.  Every cell that was never narrowed *)
(* holds a set built by the same statement (line 137), in one order; a     *)
(* narrowed set is the result of `before & allowed` (line 171), in an      *)
(* order that depends on how the two operands were built.                  *)
(* Here the scan stores, for each candidate, its entropy as twice the      *)
(* exact value plus a rounding bit, any bit for a narrowed set of three    *)
(* tiles or more.  Whatever the bits, the cell chosen is one of the cells  *)
(* Collapse can choose, and each of those is chosen for some bits.         *)
(***************************************************************************)
\* the sets whose float entropy depends on the order of iteration, and
\* that cells can hold in different orders
OrderSensitive(cell) == Cardinality(cell) >= 3 /\ cell # TileNames

\* lines 155-156 on the stored list
LowEntropyOf(cands) ==
  LET min_entropy == MinOver([i \in 1 .. Len(cands) |-> i], [i \in 1 .. Len(cands) |-> cands[i][2]])
  IN  SelectSeq(cands, LAMBDA item : item[2] = min_entropy)

\* lines 148-152: the scan, when it finds a candidate
Scan ==
  /\ pc = "wfc_scan"
  /\ Candidates(grid, width, height) # << >>
  /\ LET cells == Candidates(grid, width, height)
         sensitive == {i \in 1 .. Len(cells) : OrderSensitive(grid[cells[i]])}
     IN  \E up \in SUBSET sensitive :
           candidates' =
             [i \in 1 .. Len(cells) |->
                <<cells[i],
                  2 * EntropyTable[tile_weights][grid[cells[i]]]
                    + (IF i \in up THEN 1 ELSE 0)>>]
  /\ pc' = "wfc_choose"
  /\ UNCHANGED <<auxVars, stageVars, width, height, tile_weights, grid, stack, allowed,
                 nbrs, cxy, collapses, tiles>>

\* lines 155-162: the cell is drawn from low_entropy and collapsed
Choose ==
  /\ pc = "wfc_choose"
  /\ LET low_entropy == LowEntropyOf(candidates)
     IN  \E i \in 1 .. Len(low_entropy) :
           LET c == low_entropy[i][1]
               options == grid[c]
           IN  \E u \in 0 .. UDen :
                 \E choice \in ChoiceTable[tile_weights][options][u] :
                   /\ grid' = [grid EXCEPT ![c] = {choice}]
                   /\ stack' = <<c>>
  /\ collapses' = collapses + 1
  /\ pc' = "wfc_pop"
  /\ UNCHANGED <<auxVars, stageVars, width, height, tile_weights, allowed, nbrs, cxy,
                 candidates, tiles>>

NextSelect ==
  \/ WfcInit
  \/ Scan
  \/ Choose
  \/ LoopExit
  \/ Pop
  \/ NeighborUpdate
  \/ NeighborsDone
  \/ PropagationDone

SpecSelect == Init /\ [][NextSelect]_vars

(***************************************************************************)
(* The collapse with its list and its draw on record: call holds the cell, *)
(* the list of names line 159 builds from the set and the draw u of        *)
(* rng.uniform, ret the tile _weighted_choice returns.                     *)
(***************************************************************************)
InitChoice ==
  /\ pc = "wfc_init"
  /\ \E w \in 1 .. MaxStageCells, h \in 1 .. MaxStageCells :
       /\ w * h <= MaxStageCells
       /\ width = w
       /\ height = h
  /\ scale = 1000
  /\ SolverIdle
  /\ StagesIdle

\* lines 148-162, the items of line 159 in the order `names`
CollapseChoice ==
  /\ pc = "wfc_scan"
  /\ Candidates(grid, width, height) # << >>
  /\ LET low_entropy == LowEntropy(grid, width, height, tile_weights)
     IN  \E i \in 1 .. Len(low_entropy) :
           LET c == low_entropy[i]
               options == grid[c]
           IN  \E names \in Orderings(options), u \in 0 .. UDen :
                 LET choice == _weighted_choice(
                                 names, [k \in 1 .. Len(names) |-> tile_weights[names[k]]], u)
                 IN  /\ call' = [cell |-> c, names |-> names, u |-> u]
                     /\ ret' = choice
                     /\ grid' = [grid EXCEPT ![c] = {choice}]
                     /\ stack' = <<c>>
  /\ collapses' = collapses + 1
  /\ pc' = "wfc_pop"
  /\ UNCHANGED <<stageVars, width, height, tile_weights, allowed, nbrs, cxy, candidates,
                 tiles, twin, draws, pushes>>

\* line 163: the stack is empty; the list and the tile of this iteration
\* are not read again, the next iteration builds its own
ChoiceDone ==
  /\ pc = "wfc_pop"
  /\ stack = << >>
  /\ pc' = "wfc_scan"
  /\ call' = << >>
  /\ ret' = "none"
  /\ UNCHANGED <<stageVars, width, height, solverVars, twin, draws, pushes>>

NextChoice ==
  \/ WfcInit
  \/ CollapseChoice
  \/ LoopExit
  \/ Pop
  \/ NeighborUpdate
  \/ NeighborsDone
  \/ ChoiceDone

SpecChoice == InitChoice /\ [][NextChoice]_vars

(***************************************************************************)
(* _planet_sample and generate_heightfield                                 *)
(***************************************************************************)
\* lines 99-105: the profile the walk selects, from profile i on
RECURSIVE SelectProfile(_, _, _, _, _)
SelectProfile(profiles, i, current, total, u) ==
  IF i > Len(profiles) THEN profiles[Len(profiles)]
  ELSE IF (current + profiles[i].weight) * UDen >= total * u THEN profiles[i]
       ELSE SelectProfile(profiles, i + 1, current + profiles[i].weight, total, u)

\* _planet_sample: u is the draw of rng.uniform, z1 and z2 the two draws of
\* rng.gauss in units of their sigma; the result is in metres
_planet_sample(profiles, u, z1, z2) ==
  LET total == SumSeq([i \in 1 .. Len(profiles) |-> profiles[i].weight])
      selected == SelectProfile(profiles, 1, 0, total, u)
      base == selected.mean + selected.stdev * z1
      rough == (selected.stdev * selected.roughness * z2) \div 10
  IN  base + rough

\* mutant of the clamp: the upper limit is not applied
ClampLowerOnly(sample, min_h, max_h) == Max(sample, min_h)

\* line 234: max(min(sample, max_h), min_h)
Clamp(sample, min_h, max_h) == Max(Min(sample, max_h), min_h)

\* lines 226-228: len(tiles[0]) of a grid of no row
HfIndexError ==
  /\ pc = "returned"
  /\ height <= 0
  /\ pc' = "crashed"
  /\ error' = "IndexError"
  /\ UNCHANGED <<auxVars, width, height, solverVars, scale, heights, biomes,
                 obj_lines, ix, iy>>

\* lines 226-228: the grid of zeros
HfStart ==
  /\ pc = "returned"
  /\ height > 0
  /\ heights' = [c \in Cells(width, height) |-> 0]
  /\ ix' = 0
  /\ iy' = 0
  /\ pc' = "hf_loop"
  /\ UNCHANGED <<auxVars, width, height, solverVars, scale, biomes, obj_lines, error>>

\* lines 231-234: one cell
HfCell ==
  /\ pc = "hf_loop"
  /\ iy < height
  /\ ix < width
  /\ \E u \in 0 .. UDen, z1 \in GaussDraws, z2 \in GaussDraws :
       LET range == height_range[tiles[<<ix, iy>>]]
           sample == _planet_sample(PLANET_PROFILES, u, z1, z2)
       IN  heights' = [heights EXCEPT ![<<ix, iy>>] = Clamp(sample, range[1], range[2])]
  /\ ix' = ix + 1
  /\ UNCHANGED <<auxVars, pc, width, height, solverVars, scale, biomes, obj_lines, iy, error>>

\* line 230: the row is done
HfRowEnd ==
  /\ pc = "hf_loop"
  /\ iy < height
  /\ ix >= width
  /\ ix' = 0
  /\ iy' = iy + 1
  /\ UNCHANGED <<auxVars, pc, width, height, solverVars, scale, heights, biomes,
                 obj_lines, error>>

\* line 235
HfReturn ==
  /\ pc = "hf_loop"
  /\ iy >= height
  /\ pc' = "heights_done"
  /\ UNCHANGED <<auxVars, width, height, solverVars, stageVars>>

NextHeight == HfStart \/ HfCell \/ HfRowEnd \/ HfReturn

\* generate_heightfield called on a grid of tiles
InitHeight ==
  /\ pc = "returned"
  /\ \E w \in 1 .. MaxStageCells, h \in 1 .. MaxStageCells :
       /\ w * h <= MaxStageCells
       /\ width = w
       /\ height = h
       /\ tiles \in [Cells(w, h) -> TileNames]
  /\ scale = 1000
  /\ tile_weights = [t \in TileNames |-> 0]
  /\ grid = [c \in DOMAIN tiles |-> {tiles[c]}]
  /\ stack = << >>
  /\ allowed = {}
  /\ nbrs = << >>
  /\ cxy = << >>
  /\ candidates = << >>
  /\ collapses = 0
  /\ StagesIdle

SpecHeight == InitHeight /\ [][NextHeight]_vars

\* the cells generate_heightfield has written: those before <<ix, iy>> in
\* row-major order
HfWritten ==
  IF pc = "hf_loop"
  THEN {c \in DOMAIN heights : c[2] < iy \/ (c[2] = iy /\ c[1] < ix)}
  ELSE DOMAIN heights

\* C8: every elevation generate_heightfield has written lies within the
\* height_range of the cell's tile, limits included, whatever the sample.
C8_RangeInvariant ==
  \A c \in HfWritten :
    /\ height_range[tiles[c]][1] <= heights[c]
    /\ heights[c] <= height_range[tiles[c]][2]

\* the heightfield is complete, and a sample above its tile's range and a
\* sample below its tile's range were clamped to the limits (no sample of
\* the model equals a limit)
C8_Witness ==
  /\ pc = "heights_done"
  /\ \E c \in DOMAIN heights : heights[c] = height_range[tiles[c]][2]
  /\ \E c \in DOMAIN heights : heights[c] = height_range[tiles[c]][1]

(***************************************************************************)
(* The biome classifier.  Temperature, moisture and distance are held in   *)
(* units of 1/Unit, rounded down; elevation in metres.                     *)
(***************************************************************************)
Unit == 10 ^ 4

Abs(a) == IF a < 0 THEN -a ELSE a

\* the integer square root: lo <= sqrt(n) < hi
RECURSIVE IsqrtIn(_, _, _)
IsqrtIn(n, lo, hi) ==
  IF hi - lo <= 1 THEN lo
  ELSE LET mid == (lo + hi) \div 2
       IN  IF mid * mid <= n THEN IsqrtIn(n, mid, hi) ELSE IsqrtIn(n, lo, mid)

\* math.hypot(dx, dy), to the thousandth
Hypot(dx, dy) == 10 * IsqrtIn((dx * dx + dy * dy) * (10 ^ 6), 0, 46341)

\* (y / (height - 1)) * 2.0 - 1.0, for height - 1 # 0
LatNorm(y, h) == (2 * y * Unit) \div (h - 1) - Unit

\* _temperature_at
_temperature_at(lat_norm, elevation) ==
  LET base_temp == Unit - Abs(lat_norm)
      lapse == Max(0, Unit - (elevation * 5) \div 4)
  IN  (base_temp * lapse) \div Unit

\* _moisture_at: u is the draw of rng.uniform(0.0, 1.0)
_moisture_at(u, distance_to_ocean) ==
  LET base == (u * Unit) \div UDen
      ocean_bonus == Max(0, Unit - distance_to_ocean \div 12)
  IN  Min(Unit, (6 * base + 4 * ocean_bonus) \div 10)

\* mutant of _biome: the tundra rule tests moisture <= 0.35
BiomeTundraInclusive(temperature, moisture, elevation) ==
  IF elevation > 3500 \/ temperature < 1500 THEN "alpine"
  ELSE IF temperature < 3000 /\ moisture <= 3500 THEN "tundra"
  ELSE IF temperature < 4000 /\ moisture >= 3500 THEN "taiga"
  ELSE IF temperature > 6500 /\ moisture < 3500 THEN "desert"
  ELSE IF temperature > 6500 /\ moisture >= 3500 THEN "rainforest"
  ELSE IF moisture >= 5000 THEN "forest"
  ELSE "grassland"

\* _biome
_biome(temperature, moisture, elevation) ==
  IF elevation > 3500 \/ temperature < 1500 THEN "alpine"
  ELSE IF temperature < 3000 /\ moisture < 3500 THEN "tundra"
  ELSE IF temperature < 4000 /\ moisture >= 3500 THEN "taiga"
  ELSE IF temperature > 6500 /\ moisture < 3500 THEN "desert"
  ELSE IF temperature > 6500 /\ moisture >= 3500 THEN "rainforest"
  ELSE IF moisture >= 5000 THEN "forest"
  ELSE "grassland"

max_radius == 10

\* mutant of lines 211-212: the two loops exchanged, dy outer and dx inner
OffsetsDyMajor(radius) ==
  LET side == 2 * radius + 1
  IN  [i \in 1 .. side * side |->
         <<((i - 1) % side) - radius, ((i - 1) \div side) - radius>>]

\* the offsets of one square, dx outer and dy inner
Offsets(radius) ==
  LET side == 2 * radius + 1
  IN  [i \in 1 .. side * side |->
         <<((i - 1) \div side) - radius, ((i - 1) % side) - radius>>]

\* lines 211-218, from `radius` on
RECURSIVE ScanFrom(_, _, _, _, _, _)
ScanFrom(t, x, y, w, h, radius) ==
  IF radius > max_radius THEN max_radius * Unit
  ELSE LET IsOcean(d) ==
             /\ 0 <= x + d[1] /\ x + d[1] < w
             /\ 0 <= y + d[2] /\ y + d[2] < h
             /\ t[<<x + d[1], y + d[2]>>] = "ocean"
           hits == SelectSeq(Offsets(radius), IsOcean)
       IN  IF hits # << >> THEN Hypot(hits[1][1], hits[1][2])
           ELSE ScanFrom(t, x, y, w, h, radius + 1)

\* _distance_to_ocean; w is len(tiles[0]) and h is len(tiles)
_distance_to_ocean(t, x, y, w, h) ==
  IF t[<<x, y>>] = "ocean" THEN 0 ELSE ScanFrom(t, x, y, w, h, 1)

(***************************************************************************)
(* assign_biomes                                                           *)
(***************************************************************************)
\* lines 243-245
BiomeStart ==
  /\ pc = "heights_done"
  /\ biomes' = [c \in Cells(width, height) |-> ""]
  /\ ix' = 0
  /\ iy' = 0
  /\ pc' = "biome_row"
  /\ UNCHANGED <<auxVars, width, height, solverVars, scale, heights, obj_lines, error>>

\* line 247, with height - 1 = 0
BiomeZeroDivision ==
  /\ pc = "biome_row"
  /\ iy < height
  /\ height - 1 = 0
  /\ pc' = "crashed"
  /\ error' = "ZeroDivisionError"
  /\ UNCHANGED <<auxVars, width, height, solverVars, scale, heights, biomes, obj_lines, ix, iy>>

\* line 247
BiomeRow ==
  /\ pc = "biome_row"
  /\ iy < height
  /\ height - 1 # 0
  /\ ix' = 0
  /\ pc' = "biome_cell"
  /\ UNCHANGED <<auxVars, width, height, solverVars, scale, heights, biomes, obj_lines, iy, error>>

\* lines 249-253: one cell
BiomeCell ==
  /\ pc = "biome_cell"
  /\ ix < width
  /\ \E u \in 0 .. UDen :
       LET elevation == heights[<<ix, iy>>]
           temp == _temperature_at(LatNorm(iy, height), elevation)
           distance == _distance_to_ocean(tiles, ix, iy, width, height)
           moisture == _moisture_at(u, distance)
       IN  biomes' = [biomes EXCEPT ![<<ix, iy>>] = _biome(temp, moisture, elevation)]
  /\ ix' = ix + 1
  /\ UNCHANGED <<auxVars, pc, width, height, solverVars, scale, heights, obj_lines, iy, error>>

\* line 248: the row is done
BiomeRowEnd ==
  /\ pc = "biome_cell"
  /\ ix >= width
  /\ iy' = iy + 1
  /\ pc' = "biome_row"
  /\ UNCHANGED <<auxVars, width, height, solverVars, scale, heights, biomes, obj_lines, ix, error>>

\* line 254
BiomeReturn ==
  /\ pc = "biome_row"
  /\ iy >= height
  /\ pc' = "biomes_done"
  /\ UNCHANGED <<auxVars, width, height, solverVars, stageVars>>

NextBiomes ==
  BiomeStart \/ BiomeZeroDivision \/ BiomeRow \/ BiomeCell \/ BiomeRowEnd \/ BiomeReturn

(***************************************************************************)
(* export_obj.  scale is held in thousandths; a number written with        *)
(* {:.3f} is its sign, whole part and three decimals.                      *)
(***************************************************************************)
Format3(milli) ==
  [neg |-> milli < 0, whole |-> Abs(milli) \div 1000, frac |-> Abs(milli) % 1000]

\* line 269
VertexLine(x, y, z, sc) ==
  [kind |-> "v", x |-> Format3(x * sc), y |-> Format3(y * sc), z |-> Format3(z * 1000)]

\* mutant of the face indices: v1 without the + 1
FaceLinesZeroBased(x, y, w) ==
  LET v1 == y * w + x
      v2 == v1 + 1
      v3 == v1 + w
      v4 == v3 + 1
  IN  << [kind |-> "f", a |-> v1, b |-> v2, c |-> v4],
         [kind |-> "f", a |-> v1, b |-> v4, c |-> v3] >>

\* lines 272-277: the two faces of the quad at <<x, y>>
FaceLines(x, y, w) ==
  LET v1 == y * w + x + 1
      v2 == v1 + 1
      v3 == v1 + w
      v4 == v3 + 1
  IN  << [kind |-> "f", a |-> v1, b |-> v2, c |-> v4],
         [kind |-> "f", a |-> v1, b |-> v4, c |-> v3] >>

\* lines 262-265
ExportStart ==
  /\ pc = "biomes_done"
  /\ obj_lines' = << [kind |-> "#"] >>
  /\ ix' = 0
  /\ iy' = 0
  /\ pc' = "export_v"
  /\ UNCHANGED <<auxVars, width, height, solverVars, scale, heights, biomes, error>>

\* lines 268-269: one vertex
ExportVertex ==
  /\ pc = "export_v"
  /\ iy < height
  /\ ix < width
  /\ obj_lines' = Append(obj_lines, VertexLine(ix, iy, heights[<<ix, iy>>], scale))
  /\ ix' = ix + 1
  /\ UNCHANGED <<auxVars, pc, width, height, solverVars, scale, heights, biomes, iy, error>>

\* line 267: the row is done
ExportVertexRowEnd ==
  /\ pc = "export_v"
  /\ iy < height
  /\ ix >= width
  /\ ix' = 0
  /\ iy' = iy + 1
  /\ UNCHANGED <<auxVars, pc, width, height, solverVars, scale, heights, biomes, obj_lines, error>>

\* line 266: the rows are done; line 270
ExportVerticesDone ==
  /\ pc = "export_v"
  /\ iy >= height
  /\ ix' = 0
  /\ iy' = 0
  /\ pc' = "export_f"
  /\ UNCHANGED <<auxVars, width, height, solverVars, scale, heights, biomes, obj_lines, error>>

\* lines 272-277: one quad
ExportFace ==
  /\ pc = "export_f"
  /\ iy < height - 1
  /\ ix < width - 1
  /\ obj_lines' = obj_lines \o FaceLines(ix, iy, width)
  /\ ix' = ix + 1
  /\ UNCHANGED <<auxVars, pc, width, height, solverVars, scale, heights, biomes, iy, error>>

\* line 271: the row of quads is done
ExportFaceRowEnd ==
  /\ pc = "export_f"
  /\ iy < height - 1
  /\ ix >= width - 1
  /\ ix' = 0
  /\ iy' = iy + 1
  /\ UNCHANGED <<auxVars, pc, width, height, solverVars, scale, heights, biomes, obj_lines, error>>

\* line 270: the rows of quads are done; the file is closed
ExportReturn ==
  /\ pc = "export_f"
  /\ iy >= height - 1
  /\ pc' = "exported"
  /\ UNCHANGED <<auxVars, width, height, solverVars, stageVars>>

NextExport ==
  \/ ExportStart
  \/ ExportVertex
  \/ ExportVertexRowEnd
  \/ ExportVerticesDone
  \/ ExportFace
  \/ ExportFaceRowEnd
  \/ ExportReturn

(***************************************************************************)
(* main                                                                    *)
(***************************************************************************)
\* the values of --scale, in thousandths
Scales == {1000, 2500}

\* lines 309-311: parse_args; --width and --height are any integers
ParseArgs ==
  /\ pc = "parse_args"
  /\ \E w \in (-1) .. MaxStageCells, h \in (-1) .. MaxStageCells :
       /\ (w >= 1 /\ h >= 1) => (w * h <= MaxStageCells /\ (w = 1 \/ h = 1))
       /\ width' = w
       /\ height' = h
  /\ scale' \in Scales
  /\ pc' = "wfc_init"
  /\ UNCHANGED <<auxVars, solverVars, heights, biomes, obj_lines, ix, iy, error>>

\* lines 315-317
Finish ==
  /\ pc = "exported"
  /\ pc' = "done"
  /\ UNCHANGED <<auxVars, width, height, solverVars, stageVars>>

InitMain ==
  /\ pc = "parse_args"
  /\ width = 0
  /\ height = 0
  /\ scale = 0
  /\ SolverIdle
  /\ StagesIdle

\* main on the grids ParseArgs draws: they have a single row or a single
\* column (or none), hence no quad, and the body of the face loop
\* (ExportFace, which SpecObj runs) is never enabled
NextMain ==
  \/ ParseArgs
  \/ Next
  \/ HfIndexError
  \/ NextHeight
  \/ NextBiomes
  \/ ExportStart
  \/ ExportVertex
  \/ ExportVertexRowEnd
  \/ ExportVerticesDone
  \/ ExportFaceRowEnd
  \/ ExportReturn
  \/ Finish

SpecMain == InitMain /\ [][NextMain]_vars

(***************************************************************************)
(* _biome run on its own.                                                  *)
(***************************************************************************)
\* temperatures and moistures (in 1/Unit) and elevations (in metres) on
\* both sides of every threshold of the table
BiomeTemperatures == {0, 1499, 1500, 2999, 3000, 3999, 4000, 6500, 6501, 10000}
BiomeMoistures == {0, 3499, 3500, 4999, 5000, 10000}
BiomeElevations == {-6000, 0, 3500, 3501, 6500}

InitBiome ==
  /\ pc = "call_biome"
  /\ width = 0
  /\ height = 0
  /\ scale = 0
  /\ SolverIdle
  /\ heights = << >>
  /\ biomes = << >>
  /\ obj_lines = << >>
  /\ ix = 0
  /\ iy = 0
  /\ error = "none"
  /\ twin = << >>
  /\ pushes = 0
  /\ draws = << >>
  /\ call \in [temperature : BiomeTemperatures, moisture : BiomeMoistures,
               elevation : BiomeElevations]
  /\ ret = "none"

ApplyBiome ==
  /\ pc = "call_biome"
  /\ ret' = _biome(call.temperature, call.moisture, call.elevation)
  /\ pc' = "biome_returned"
  /\ UNCHANGED <<width, height, solverVars, stageVars, twin, call, draws, pushes>>

SpecBiome == InitBiome /\ [][ApplyBiome]_vars

(***************************************************************************)
(* _distance_to_ocean run on its own.  Only whether a tile is ocean        *)
(* matters: the grids hold ocean and lowland, in a single row of up to     *)
(* MaxRowLen cells (an ocean cell can lie farther than max_radius) or in   *)
(* a rectangle of sides up to MaxOceanDim with up to two ocean cells.      *)
(***************************************************************************)
OceanGrids(w, h) ==
  {t \in [Cells(w, h) -> {"ocean", "lowland"}] :
     h = 1 \/ Cardinality({c \in Cells(w, h) : t[c] = "ocean"}) <= 2}

InitOcean ==
  /\ pc = "call_ocean"
  /\ \E w \in 1 .. MaxRowLen, h \in 1 .. MaxOceanDim :
       /\ h = 1 \/ w <= MaxOceanDim
       /\ width = w
       /\ height = h
       /\ tiles \in OceanGrids(w, h)
       /\ \E c \in Cells(w, h) : call = [x |-> c[1], y |-> c[2]]
  /\ scale = 0
  /\ tile_weights = [t \in TileNames |-> 0]
  /\ grid = << >>
  /\ stack = << >>
  /\ allowed = {}
  /\ nbrs = << >>
  /\ cxy = << >>
  /\ candidates = << >>
  /\ collapses = 0
  /\ heights = << >>
  /\ biomes = << >>
  /\ obj_lines = << >>
  /\ ix = 0
  /\ iy = 0
  /\ error = "none"
  /\ twin = << >>
  /\ pushes = 0
  /\ draws = << >>
  /\ ret = "none"

ApplyDistance ==
  /\ pc = "call_ocean"
  /\ ret' = _distance_to_ocean(tiles, call.x, call.y, width, height)
  /\ pc' = "ocean_returned"
  /\ UNCHANGED <<width, height, solverVars, stageVars, twin, call, draws, pushes>>

SpecOcean == InitOcean /\ [][ApplyDistance]_vars

(***************************************************************************)
(* export_obj run on its own, on a heightfield of positive dimensions.     *)
(***************************************************************************)
\* the heightfields export_obj is run on: flat ones and a ramp
ObjHeights(w, h) ==
  {[c \in Cells(w, h) |-> z] : z \in {-200, 1500}}
    \cup {[c \in Cells(w, h) |-> 100 * (c[1] + 2 * c[2])]}

InitObj ==
  /\ pc = "biomes_done"
  /\ \E w \in 1 .. MaxObjDim, h \in 1 .. MaxObjDim :
       /\ width = w
       /\ height = h
       /\ heights \in ObjHeights(w, h)
  /\ scale \in Scales
  /\ SolverIdle
  /\ biomes = << >>
  /\ obj_lines = << >>
  /\ ix = 0
  /\ iy = 0
  /\ error = "none"
  /\ twin = << >>
  /\ pushes = 0
  /\ draws = << >>
  /\ call = << >>
  /\ ret = "none"

SpecObj == InitObj /\ [][NextExport]_vars

(***************************************************************************)
(* Two runs of the solver on the same width, height and seed: the same     *)
(* weight table (no set is iterated to compute it) and, at each collapse,  *)
(* the same draws; each run iterates its sets in its own order.  grid and  *)
(* tiles are the first run's, twin the second's.  A step is one iteration  *)
(* of the outer loop in each run that has a candidate left.                *)
(***************************************************************************)
\* lines 169-174 for the neighbours ns of a popped cell
RECURSIVE UpdateNeighbors(_, _, _, _)
UpdateNeighbors(g, stk, ns, allow) ==
  IF ns = << >> THEN <<g, stk>>
  ELSE LET n == Head(ns)
           before == g[n]
           after == Narrow(before, allow)
       IN  UpdateNeighbors([g EXCEPT ![n] = after],
                           IF after # before THEN Append(stk, n) ELSE stk,
                           Tail(ns), allow)

\* lines 163-174: the propagation, to the empty stack
RECURSIVE Propagate(_, _, _, _)
Propagate(g, stk, w, h) ==
  IF stk = << >> THEN g
  ELSE LET c == stk[Len(stk)]
           r == UpdateNeighbors(g, SubSeq(stk, 1, Len(stk) - 1),
                                _neighbors(c[1], c[2], w, h), AllowedUnion(g[c]))
       IN  Propagate(r[1], r[2], w, h)

\* lines 160-174: the cell c collapsed to choice, and the propagation
CollapseTo(g, c, choice, w, h) == Propagate([g EXCEPT ![c] = {choice}], <<c>>, w, h)

InitDet ==
  /\ pc = "det_scan"
  /\ \E w \in 1 .. MaxStageCells, h \in 1 .. MaxStageCells :
       /\ w * h <= MaxStageCells
       /\ width = w
       /\ height = h
       /\ grid = [c \in Cells(w, h) |-> TileNames]
       /\ twin = [grid |-> [c \in Cells(w, h) |-> TileNames], tiles |-> << >>]
       /\ pushes = 0
  /\ scale = 1000
  /\ tile_weights \in WeightTables
  /\ stack = << >>
  /\ allowed = {}
  /\ nbrs = << >>
  /\ cxy = << >>
  /\ candidates = << >>
  /\ collapses = 0
  /\ tiles = << >>
  /\ heights = << >>
  /\ biomes = << >>
  /\ obj_lines = << >>
  /\ ix = 0
  /\ iy = 0
  /\ error = "none"
  /\ draws = << >>
  /\ call = << >>
  /\ ret = "none"

\* one iteration of the outer loop in both runs: the tie-break draw is the
\* same index when the two lists have the same length, the draw u of the
\* weighted choice is the same
DetIteration ==
  /\ pc = "det_scan"
  /\ LET has1 == Candidates(grid, width, height) # << >>
         has2 == Candidates(twin.grid, width, height) # << >>
         low1 == IF has1 THEN LowEntropy(grid, width, height, tile_weights) ELSE << <<0, 0>> >>
         low2 == IF has2 THEN LowEntropy(twin.grid, width, height, tile_weights) ELSE << <<0, 0>> >>
     IN  /\ has1 \/ has2
         /\ \E i \in 1 .. Len(low1), j \in 1 .. Len(low2), u \in 0 .. UDen :
              /\ (has1 /\ has2 /\ Len(low1) = Len(low2)) => i = j
              /\ IF has1
                 THEN \E choice \in ChoiceTable[tile_weights][grid[low1[i]]][u] :
                        grid' = CollapseTo(grid, low1[i], choice, width, height)
                 ELSE grid' = grid
              /\ IF has2
                 THEN \E choice \in ChoiceTable[tile_weights][twin.grid[low2[j]]][u] :
                        twin' = [twin EXCEPT !.grid =
                                   CollapseTo(twin.grid, low2[j], choice, width, height)]
                 ELSE twin' = twin
  /\ collapses' = collapses + 1
  /\ UNCHANGED <<pc, width, height, tile_weights, stack, allowed, nbrs, cxy, candidates, tiles,
                 stageVars, call, ret, draws, pushes>>

\* line 176 in both runs
DetReturn ==
  /\ pc = "det_scan"
  /\ Candidates(grid, width, height) = << >>
  /\ Candidates(twin.grid, width, height) = << >>
  /\ tiles' \in NextIterEach(grid, width, height)
  /\ \E t2 \in NextIterEach(twin.grid, width, height) : twin' = [twin EXCEPT !.tiles = t2]
  /\ pc' = "det_done"
  /\ UNCHANGED <<width, height, tile_weights, grid, stack, allowed, nbrs, cxy, candidates, collapses,
                 stageVars, call, ret, draws, pushes>>

NextDet == DetIteration \/ DetReturn

SpecDet == InitDet /\ [][NextDet]_vars

(***************************************************************************)
(* The solver run on a substituted catalog.  TILE_TYPES is a module-level  *)
(* table that a caller can replace before calling wave_function_collapse;  *)
(* call holds the allowed_neighbors column of the catalog in use, the      *)
(* other columns and the keys are those of TILE_TYPES.  A step is one      *)
(* iteration of the outer loop.                                            *)
(***************************************************************************)
\* the catalogs the solver is run on: TILE_TYPES, TILE_TYPES with an unknown
\* name added to ocean's list, and with polar replaced by an unknown name
\* in mountain's list
Catalogs ==
  { allowed_neighbors,
    [allowed_neighbors EXCEPT !["ocean"] = @ \cup {"lava"}],
    [allowed_neighbors EXCEPT !["mountain"] = {"highland", "mountain", "glacier"}] }

\* lines 166-168 on the catalog cat
AllowedUnionIn(cat, options) == UNION {cat[o] : o \in options}

\* lines 163-174 on the catalog cat
RECURSIVE PropagateIn(_, _, _, _, _)
PropagateIn(cat, g, stk, w, h) ==
  IF stk = << >> THEN g
  ELSE LET c == stk[Len(stk)]
           r == UpdateNeighbors(g, SubSeq(stk, 1, Len(stk) - 1),
                                _neighbors(c[1], c[2], w, h), AllowedUnionIn(cat, g[c]))
       IN  PropagateIn(cat, r[1], r[2], w, h)

InitCatalog ==
  /\ pc = "cat_init"
  /\ \E w \in 1 .. MaxStageCells, h \in 1 .. MaxStageCells :
       /\ w * h <= MaxStageCells
       /\ width = w
       /\ height = h
  /\ scale = 1000
  /\ SolverIdle
  /\ heights = << >>
  /\ biomes = << >>
  /\ obj_lines = << >>
  /\ ix = 0
  /\ iy = 0
  /\ error = "none"
  /\ twin = << >>
  /\ pushes = 0
  /\ draws = << >>
  /\ call \in Catalogs
  /\ ret = "none"

\* lines 135-138: the weights and the grid of full sets; the catalog is
\* not examined
CatalogWfcInit ==
  /\ pc = "cat_init"
  /\ \E tw \in WeightTables : tile_weights' = tw
  /\ grid' = [c \in Cells(width, height) |-> TileNames]
  /\ pc' = "cat_scan"
  /\ UNCHANGED <<auxVars, stageVars, width, height, stack, allowed, nbrs, cxy, candidates, collapses, tiles>>

\* lines 148-174: one iteration of the outer loop
CatalogIteration ==
  /\ pc = "cat_scan"
  /\ Candidates(grid, width, height) # << >>
  /\ LET low_entropy == LowEntropy(grid, width, height, tile_weights)
     IN  \E i \in 1 .. Len(low_entropy), u \in 0 .. UDen :
           \E choice \in ChoiceTable[tile_weights][grid[low_entropy[i]]][u] :
             grid' = PropagateIn(call, [grid EXCEPT ![low_entropy[i]] = {choice}],
                                 <<low_entropy[i]>>, width, height)
  /\ collapses' = collapses + 1
  /\ UNCHANGED <<auxVars, stageVars, pc, width, height, tile_weights, stack, allowed,
                 nbrs, cxy, candidates, tiles>>

\* lines 153-154 and 176
CatalogReturn ==
  /\ pc = "cat_scan"
  /\ Candidates(grid, width, height) = << >>
  /\ tiles' \in NextIterEach(grid, width, height)
  /\ pc' = "returned"
  /\ UNCHANGED <<auxVars, stageVars, width, height, tile_weights, grid, stack, allowed,
                 nbrs, cxy, candidates, collapses>>

NextCatalog == CatalogWfcInit \/ CatalogIteration \/ CatalogReturn

SpecCatalog == InitCatalog /\ [][NextCatalog]_vars

\* C11 (under SpecCatalog): with a catalog in which some tile's
\* allowed-neighbour list names a tile that is not in the catalog, the
\* solver performs no collapse and returns no grid.
C11_FailsFast ==
  (pc \in {"cat_scan", "returned"}
     /\ \E t \in DOMAIN call : ~(call[t] \subseteq TileNames))
    => (collapses = 0 /\ pc # "returned")

(***************************************************************************)
(* The calls on the random source.  The solver and the two stages that     *)
(* draw are run with every call on rng appended to draws as                *)
(* <<function, call>>; the values drawn are those of the actions above.    *)
(***************************************************************************)
\* seq, n times over
Repeat(seq, n) == [i \in 1 .. n * Len(seq) |-> seq[((i - 1) % Len(seq)) + 1]]

\* lines 98, 106, 107
PlanetSampleCalls ==
  << <<"_planet_sample", "uniform(0, total)">>,
     <<"_planet_sample", "gauss(mean, stdev)">>,
     <<"_planet_sample", "gauss(0, stdev * roughness)">> >>

\* lines 113-114: 30 samples for each tile of the catalog
InitialTileWeightsCalls == Repeat(PlanetSampleCalls, Cardinality(TileNames) * NumSamples)

\* mutant of line 157: a single cell at the minimum is taken without a draw
TieBreakCallsWhenTied(low_entropy) ==
  IF Len(low_entropy) > 1 THEN << <<"wave_function_collapse", "choice(low_entropy)">> >>
  ELSE << >>

\* line 157
TieBreakCalls(low_entropy) == << <<"wave_function_collapse", "choice(low_entropy)">> >>

\* line 86
WeightedChoiceCalls == << <<"_weighted_choice", "uniform(0, total)">> >>

\* line 186
MoistureCalls == << <<"_moisture_at", "uniform(0, 1)">> >>

\* lines 135-138
WfcInitDraws ==
  /\ pc = "wfc_init"
  /\ \E tw \in WeightTables : tile_weights' = tw
  /\ grid' = [c \in Cells(width, height) |-> TileNames]
  /\ draws' = draws \o InitialTileWeightsCalls
  /\ pc' = "wfc_scan"
  /\ UNCHANGED <<stageVars, width, height, stack, allowed, nbrs, cxy, candidates,
                 collapses, tiles, twin, call, ret, pushes>>

\* lines 148-162
CollapseDraws ==
  /\ pc = "wfc_scan"
  /\ Candidates(grid, width, height) # << >>
  /\ LET low_entropy == LowEntropy(grid, width, height, tile_weights)
     IN  /\ \E i \in 1 .. Len(low_entropy) :
              LET c == low_entropy[i]
                  options == grid[c]
              IN  \E u \in 0 .. UDen :
                    \E choice \in ChoiceTable[tile_weights][options][u] :
                      /\ grid' = [grid EXCEPT ![c] = {choice}]
                      /\ stack' = <<c>>
         /\ draws' = draws \o TieBreakCalls(low_entropy) \o WeightedChoiceCalls
  /\ collapses' = collapses + 1
  /\ pc' = "wfc_pop"
  /\ UNCHANGED <<stageVars, width, height, tile_weights, allowed, nbrs, cxy, candidates,
                 tiles, twin, call, ret, pushes>>

\* lines 231-234
HfCellDraws ==
  /\ pc = "hf_loop"
  /\ iy < height
  /\ ix < width
  /\ \E u \in 0 .. UDen, z1 \in GaussDraws, z2 \in GaussDraws :
       LET range == height_range[tiles[<<ix, iy>>]]
           sample == _planet_sample(PLANET_PROFILES, u, z1, z2)
       IN  heights' = [heights EXCEPT ![<<ix, iy>>] = Clamp(sample, range[1], range[2])]
  /\ draws' = draws \o PlanetSampleCalls
  /\ ix' = ix + 1
  /\ UNCHANGED <<pc, width, height, solverVars, scale, biomes, obj_lines, iy, error,
                 twin, call, ret, pushes>>

\* lines 249-253
BiomeCellDraws ==
  /\ pc = "biome_cell"
  /\ ix < width
  /\ \E u \in 0 .. UDen :
       LET elevation == heights[<<ix, iy>>]
           temp == _temperature_at(LatNorm(iy, height), elevation)
           distance == _distance_to_ocean(tiles, ix, iy, width, height)
           moisture == _moisture_at(u, distance)
       IN  biomes' = [biomes EXCEPT ![<<ix, iy>>] = _biome(temp, moisture, elevation)]
  /\ draws' = draws \o MoistureCalls
  /\ ix' = ix + 1
  /\ UNCHANGED <<pc, width, height, solverVars, scale, heights, obj_lines, iy, error,
                 twin, call, ret, pushes>>

\* the solver, generate_heightfield and assign_biomes on a grid of positive
\* dimensions; export_obj makes no call on rng
NextDraws ==
  \/ WfcInitDraws
  \/ CollapseDraws
  \/ LoopExit
  \/ Pop
  \/ NeighborUpdate
  \/ NeighborsDone
  \/ PropagationDone
  \/ HfStart
  \/ HfCellDraws
  \/ HfRowEnd
  \/ HfReturn
  \/ BiomeStart
  \/ BiomeZeroDivision
  \/ BiomeRow
  \/ BiomeCellDraws
  \/ BiomeRowEnd
  \/ BiomeReturn

SpecDraws == InitChoice /\ [][NextDraws]_vars

(***************************************************************************)
(* Properties of the solver, checked under Spec.                           *)
(***************************************************************************)
SolverCells == Cells(width, height)

Collapsed == {c \in DOMAIN grid : Cardinality(grid[c]) = 1}

\* C1: in every state reached during solving (after the initialisation,
\* after each collapse, after each single propagation update) every cell's
\* candidate set is a non-empty subset of the tile vocabulary, and no step
\* makes a cell's set anything but a subset of what it was before the step.
C1_CollapseInvariant ==
  [][ /\ \A c \in DOMAIN grid' : grid'[c] # {} /\ grid'[c] \subseteq TileNames
      /\ \A c \in DOMAIN grid : c \in DOMAIN grid' /\ grid'[c] \subseteq grid[c] ]_vars

\* a propagation update has narrowed a cell that is not collapsed
C1_Witness ==
  /\ pc = "wfc_nbr"
  /\ \E c \in DOMAIN grid : grid[c] # TileNames /\ Cardinality(grid[c]) > 1

\* C2: in the returned grid every pair of 4-connected neighbours a, b has
\* tile(b) among the allowed neighbours of tile(a) (and so, a and b
\* exchanged, tile(a) among those of tile(b)).
C2_AdjacencyRespected ==
  pc = "returned" =>
    \A a \in SolverCells :
      \A i \in 1 .. Len(_neighbors(a[1], a[2], width, height)) :
        LET b == _neighbors(a[1], a[2], width, height)[i]
        IN  tiles[b] \in allowed_neighbors[tiles[a]]

\* C3: the number of collapse events never exceeds width*height: each one
\* made a singleton of a cell that held more than one tile, and a singleton
\* stays one, so the collapses never outnumber the collapsed cells.
C3_CollapseBound ==
  /\ collapses <= Cardinality(Collapsed)
  /\ collapses <= width * height

\* the solver has returned after collapsing every cell of a grid of
\* several cells one by one
C3_Witness ==
  /\ pc = "returned"
  /\ width * height > 1
  /\ collapses = width * height

\* C4: the main loop is left only with every candidate set a singleton, and
\* the returned grid holds, cell by cell, the one member of that set.
C4_ReturnsSingletons ==
  pc = "returned" =>
    /\ DOMAIN tiles = SolverCells
    /\ \A c \in SolverCells : grid[c] = {tiles[c]}

\* the solver has returned a grid of several cells that hold different tiles
C4_Witness ==
  /\ pc = "returned"
  /\ \E a \in SolverCells, b \in SolverCells : tiles[a] # tiles[b]

\* the in-bounds 4-neighbours of a cell, as a set
FourNeighbors(c) ==
  {n \in SolverCells : Abs(n[1] - c[1]) + Abs(n[2] - c[2]) = 1}

\* C12: in the step for a neighbour n of the popped cell, with A the union
\* of allowed_neighbors over the popped cell's candidates: n is an in-bounds
\* 4-neighbour of the popped cell; if n's set meets A in a non-empty set
\* strictly smaller than n's set, n's set becomes that intersection and n is
\* pushed; otherwise n's set and the stack are unchanged; no other cell is
\* modified, and popping modifies no cell.
C12_PropagationStep ==
  [][ /\ (pc = "wfc_nbr" /\ nbrs # << >>) =>
           LET n == Head(nbrs)
               A == UNION {allowed_neighbors[o] : o \in grid[cxy]}
               inter == grid[n] \cap A
           IN  /\ n \in FourNeighbors(cxy)
               /\ IF inter # {} /\ inter # grid[n]
                  THEN grid'[n] = inter /\ stack' = Append(stack, n)
                  ELSE grid'[n] = grid[n] /\ stack' = stack
               /\ \A c \in DOMAIN grid \ {n} : grid'[c] = grid[c]
      /\ (pc = "wfc_pop" \/ (pc = "wfc_nbr" /\ nbrs = << >>)) => grid' = grid ]_vars

\* the neighbours of a popped cell are done: one was narrowed to several
\* tiles and pushed, another has no tile in common with what the popped
\* cell allows and was left as it was
C12_Witness ==
  /\ pc = "wfc_nbr"
  /\ nbrs = << >>
  /\ stack # << >>
  /\ LET top == stack[Len(stack)]
     IN  /\ top \in FourNeighbors(cxy)
         /\ Cardinality(grid[top]) > 1
         /\ grid[top] \subseteq UNION {allowed_neighbors[o] : o \in grid[cxy]}
  /\ \E n \in FourNeighbors(cxy) :
       grid[n] \cap UNION {allowed_neighbors[o] : o \in grid[cxy]} = {}

\* C13: when a propagation phase has ended (at the start of every outer
\* iteration, and at the return) no narrowing is possible anywhere: for
\* every cell c and every in-bounds 4-neighbour n of c, the tiles of n that
\* the candidates of c allow are all of n's set or none of it.
C13_NoNarrowingLeft ==
  pc \in {"wfc_scan", "returned"} =>
    \A c \in DOMAIN grid :
      \A n \in FourNeighbors(c) :
        LET inter == grid[n] \cap UNION {allowed_neighbors[o] : o \in grid[c]}
        IN  inter = grid[n] \/ inter = {}

\* a propagation phase has ended in a grid of three cells or more where a
\* cell that was narrowed, not collapsed, has narrowed a neighbour in turn
C13_Witness ==
  /\ pc = "wfc_scan"
  /\ collapses = 1
  /\ \E c \in DOMAIN grid, n \in DOMAIN grid :
       /\ n \in FourNeighbors(c)
       /\ Cardinality(grid[c]) > 1
       /\ grid[c] # TileNames
       /\ grid[n] # TileNames
       /\ \A m \in FourNeighbors(n) : Cardinality(grid[m]) > 1

\* C14 (under SpecSelect): at the choice of every outer iteration, with the
\* entropy of a cell that of its candidate set under the weight table, the
\* cells that can be chosen are exactly the cells of more than one
\* candidate whose entropy is the least among such cells: the chosen cell
\* is one of them, and each of them can be chosen.
C14_MinEntropyChoice ==
  pc = "wfc_choose" =>
    LET uncollapsed == {c \in DOMAIN grid : Cardinality(grid[c]) > 1}
        H(c) == EntropyTable[tile_weights][grid[c]]
        tied == {c \in uncollapsed : \A d \in uncollapsed : H(c) <= H(d)}
    IN  \A c \in DOMAIN grid :
          (ENABLED (Choose /\ stack' = <<c>>)) <=> c \in tied

\* C15 (under SpecChoice): in every collapse, with the items the candidate
\* set of the chosen cell in some order and the draw d in [0, total],
\* _weighted_choice returns the first item of the list whose running sum of
\* weights reaches or exceeds d; that tile is a member of the cell's set as
\* it was before the collapse, and the cell's set becomes that one tile.
C15_WeightedChoice ==
  [][ (pc = "wfc_scan" /\ pc' = "wfc_pop") =>
        LET names == call'.names
            c == call'.cell
            cum == [i \in 0 .. Len(names) |->
                      SumSeq([k \in 1 .. i |-> tile_weights[names[k]]])]
            Reaches(i) == cum[i] * UDen >= cum[Len(names)] * call'.u
        IN  /\ Len(names) = Cardinality(grid[c])
            /\ {names[k] : k \in 1 .. Len(names)} = grid[c]
            /\ \E i \in 1 .. Len(names) :
                 /\ Reaches(i)
                 /\ \A j \in 1 .. i - 1 : ~Reaches(j)
                 /\ ret' = names[i]
            /\ ret' \in grid[c]
            /\ grid'[c] = {ret'} ]_vars

\* a cell of three tiles or more was just collapsed to the second item of
\* its list, whose running sum equals the draw
C15_Witness ==
  /\ pc = "wfc_pop"
  /\ stack = <<call.cell>>
  /\ Len(call.names) >= 3
  /\ ret = call.names[2]
  /\ grid[call.cell] = {ret}
  /\ (tile_weights[call.names[1]] + tile_weights[call.names[2]]) * UDen
       = SumSeq([k \in 1 .. Len(call.names) |-> tile_weights[call.names[k]]]) * call.u

\* C16 (under SpecDraws): the calls on the random source are, in order: for
\* each of the 30 samples of each tile, one profile-selection draw, one base
\* Gaussian draw, one roughness Gaussian draw; for each collapse, one
\* tie-break draw (whatever the number of cells at the minimum) and one
\* weighted tile draw, propagation making none; for each cell of the
\* heightfield, the three draws of a sample; for each biome cell, one
\* moisture draw.
C16_DrawOrder ==
  LET sample == << <<"_planet_sample", "uniform(0, total)">>,
                   <<"_planet_sample", "gauss(mean, stdev)">>,
                   <<"_planet_sample", "gauss(0, stdev * roughness)">> >>
      collapse == << <<"wave_function_collapse", "choice(low_entropy)">>,
                     <<"_weighted_choice", "uniform(0, total)">> >>
      moisture == << <<"_moisture_at", "uniform(0, 1)">> >>
      sampled == CASE pc = "hf_loop" -> iy * width + ix
                   [] pc \in {"wfc_init", "wfc_scan", "wfc_pop", "wfc_nbr", "returned"} -> 0
                   [] OTHER -> width * height
      classified == CASE pc = "biome_row" -> iy * width
                      [] pc = "biome_cell" -> iy * width + ix
                      [] pc = "biomes_done" -> width * height
                      [] OTHER -> 0
  IN  pc # "wfc_init" =>
        draws = Repeat(sample, 6 * 30) \o Repeat(collapse, collapses)
                  \o Repeat(sample, sampled) \o Repeat(moisture, classified)

\* the three stages are done on a grid of two cells, collapsed one by one:
\* at the second collapse one cell only was at the minimum
C16_Witness ==
  /\ pc = "biomes_done"
  /\ collapses = 2
  /\ Len(draws) = 3 * 6 * 30 + 2 * 2 + 3 * 2 + 2

\* C17: the weight table is set by the initialisation, before any collapse:
\* for some 30 samples per tile, each weight is the tile's base weight times
\* max(0.05, matches/30), matches the number of the samples within the
\* tile's range, limits included; each weight is positive and at least 5%
\* of the base weight; no later step changes the table.
\* (weights in units of 1/600, base weights in tenths)
C17_WeightTable ==
  [][ /\ pc # "wfc_init" => tile_weights' = tile_weights
      /\ pc = "wfc_init" =>
           /\ collapses' = 0
           /\ \E samples \in SampleCases :
                \A t \in TileNames :
                  LET matches == Cardinality({i \in 1 .. 30 :
                                     /\ height_range[t][1] <= samples[t][i]
                                     /\ samples[t][i] <= height_range[t][2]})
                  IN  tile_weights'[t] =
                        BaseWeight10[t] * (IF 2 * matches >= 3 THEN 2 * matches ELSE 3)
           /\ \A t \in TileNames :
                tile_weights'[t] > 0 /\ tile_weights'[t] >= 3 * BaseWeight10[t] ]_vars

\* the solver has returned, after two collapses or more, with a table in
\* which one tile is at the floor of 5% and another is above it
C17_Witness ==
  /\ pc = "returned"
  /\ collapses >= 2
  /\ \E t \in TileNames : tile_weights[t] = 3 * BaseWeight10[t]
  /\ \E t \in TileNames : tile_weights[t] > 3 * BaseWeight10[t]

\* C18 (under SpecOcean): _distance_to_ocean returns 0 on an ocean cell;
\* 10 when no ocean cell lies within Chebyshev radius 10; and otherwise the
\* Euclidean length of the offset to the ocean cell that lies at the least
\* Chebyshev radius holding one and, among those, has the least dx, then
\* the least dy: the first the scan meets.
C18_FirstOceanOffset ==
  pc = "ocean_returned" =>
    LET Cheb(c) == Max(Abs(c[1] - call.x), Abs(c[2] - call.y))
        near == {c \in DOMAIN tiles : tiles[c] = "ocean" /\ Cheb(c) <= 10}
        ring == {c \in near : \A d \in near : Cheb(c) <= Cheb(d)}
        first == CHOOSE c \in ring :
                   \A d \in ring : c[1] < d[1] \/ (c[1] = d[1] /\ c[2] <= d[2])
    IN  IF tiles[<<call.x, call.y>>] = "ocean" THEN ret = 0
        ELSE IF near = {} THEN ret = 10 * Unit
        ELSE ret = Hypot(first[1] - call.x, first[2] - call.y)

\* the function has returned the length of a diagonal offset, with another
\* ocean cell at the same radius and nearer in Euclidean distance
C18_Witness ==
  /\ pc = "ocean_returned"
  /\ ret = Hypot(1, 1)
  /\ \E c \in DOMAIN tiles :
       /\ tiles[c] = "ocean"
       /\ Abs(c[1] - call.x) + Abs(c[2] - call.y) = 1

\* C19 (under SpecFair): every push of line 174 follows a strict shrink of
\* the pushed cell to a non-empty set, the pushes of a whole solve number at
\* most width * height * (number of tile types - 1), and a propagation that
\* has started reaches the empty stack and leaves its loop.
C19_PropagationTerminates ==
  /\ [](pushes <= width * height * (Cardinality(TileNames) - 1))
  /\ [][ /\ (pc = "wfc_nbr" /\ Len(stack') > Len(stack)) =>
              LET n == Head(nbrs)
              IN  /\ stack' = Append(stack, n)
                  /\ pushes' = pushes + 1
                  /\ grid'[n] \subseteq grid[n]
                  /\ grid'[n] # grid[n]
                  /\ grid'[n] # {}
         /\ pushes' # pushes => (pc = "wfc_nbr" /\ Len(stack') > Len(stack)) ]_vars
  /\ (pc = "wfc_pop" /\ stack # << >>) ~> (pc = "wfc_scan" /\ stack = << >>)

\* the solver has returned after more pushes than the grid has cells: some
\* cell was pushed again after a further shrink
C19_Witness ==
  /\ pc = "returned"
  /\ pushes > width * height

\* C20 (under Spec): a cell whose set is a singleton keeps that set through
\* every later step of the solve, an update from an incompatible neighbour
\* included, and the tile returned for it is the member of that set.
C20_SingletonIsFinal ==
  [][ /\ \A c \in DOMAIN grid : Cardinality(grid[c]) = 1 => grid'[c] = grid[c]
      /\ pc' = "returned" =>
           \A c \in DOMAIN grid : Cardinality(grid[c]) = 1 => grid[c] = {tiles'[c]} ]_vars

\* the propagation has handled a neighbour of the popped cell that holds a
\* single tile none of the popped cell's options allows, and left it alone
C20_Witness ==
  /\ pc = "wfc_nbr"
  /\ \E n \in FourNeighbors(cxy) :
       /\ \A i \in 1 .. Len(nbrs) : nbrs[i] # n
       /\ Cardinality(grid[n]) = 1
       /\ grid[n] \cap allowed = {}

(***************************************************************************)
(* Properties of the pipeline.                                             *)
(***************************************************************************)
\* C5 (under SpecDet): two runs on the same width, height and random stream
\* return the same grid of tiles (and so the same heights, biomes and mesh,
\* which are computed from it).
C5_SameTiles == pc = "det_done" => tiles = twin.tiles

VertexCount == Cardinality({k \in DOMAIN obj_lines : obj_lines[k].kind = "v"})

FaceCount == Cardinality({k \in DOMAIN obj_lines : obj_lines[k].kind = "f"})

\* C6 (under SpecMain): a run on width = 1 and height = 1 ends, after one
\* collapse, with every stage done and a mesh of 1 vertex and 0 faces.
C6_OneByOneRun ==
  (width = 1 /\ height = 1 /\ pc \in {"done", "crashed"}) =>
    /\ pc = "done"
    /\ collapses = 1
    /\ VertexCount = 1
    /\ FaceCount = 0

\* C7 (under SpecMain): wave_function_collapse and the stages after it run
\* only on a width and a height that are both positive.
C7_RejectsNonPositive ==
  pc \notin {"parse_args", "wfc_init"} => (width >= 1 /\ height >= 1)

\* the decision table of the biome classifier, in priority order
RuleLabel == <<"alpine", "tundra", "taiga", "desert", "rainforest", "forest", "grassland">>

RuleHolds(i, temperature, moisture, elevation) ==
  CASE i = 1 -> elevation > 3500 \/ temperature < 1500
    [] i = 2 -> temperature < 3000 /\ moisture < 3500
    [] i = 3 -> temperature < 4000 /\ moisture >= 3500
    [] i = 4 -> temperature > 6500 /\ moisture < 3500
    [] i = 5 -> temperature > 6500 /\ moisture >= 3500
    [] i = 6 -> moisture >= 5000
    [] i = 7 -> TRUE

\* C9 (under SpecBiome): _biome returns one of the seven labels, that of
\* the first rule of the table the triple satisfies.
C9_FirstRuleWins ==
  pc = "biome_returned" =>
    \E i \in 1 .. 7 :
      /\ ret = RuleLabel[i]
      /\ RuleHolds(i, call.temperature, call.moisture, call.elevation)
      /\ \A j \in 1 .. i - 1 :
           ~RuleHolds(j, call.temperature, call.moisture, call.elevation)

\* _biome has returned on a triple that satisfies the taiga rule at its
\* moisture threshold and also a later rule
C9_Witness ==
  /\ pc = "biome_returned"
  /\ ret = "taiga"
  /\ call.moisture = 3500
  /\ RuleHolds(7, call.temperature, call.moisture, call.elevation)

\* the index of the vertex line of cell c: its place in row-major order
VertexIndexOf(c) ==
  CHOOSE i \in 1 .. width * height : RowMajor(width, height)[i] = c

\* C10 (under SpecObj): export_obj writes width*height vertex lines in
\* row-major order, then 2*(width-1)*(height-1) face lines; every index of a
\* face is 1-based, within 1..width*height, and the two faces of a quad name
\* its four corner cells.
C10_MeshShape ==
  pc = "exported" =>
    LET n == width * height
        quads == RowMajor(width - 1, height - 1)
    IN  /\ Len(obj_lines) = 1 + n + 2 * (width - 1) * (height - 1)
        /\ \A k \in 1 .. n :
             LET c == RowMajor(width, height)[k]
             IN  obj_lines[1 + k] = VertexLine(c[1], c[2], heights[c], scale)
        /\ \A j \in 1 .. Len(quads) :
             LET x == quads[j][1]
                 y == quads[j][2]
                 f1 == obj_lines[1 + n + 2 * j - 1]
                 f2 == obj_lines[1 + n + 2 * j]
             IN  /\ f1.kind = "f" /\ f2.kind = "f"
                 /\ {f1.a, f1.b, f1.c, f2.a, f2.b, f2.c} \subseteq 1 .. n
                 /\ <<f1.a, f1.b, f1.c>> =
                      <<VertexIndexOf(<<x, y>>), VertexIndexOf(<<x + 1, y>>),
                        VertexIndexOf(<<x + 1, y + 1>>)>>
                 /\ <<f2.a, f2.b, f2.c>> =
                      <<VertexIndexOf(<<x, y>>), VertexIndexOf(<<x + 1, y + 1>>),
                        VertexIndexOf(<<x, y + 1>>)>>

\* export_obj has written the mesh of a grid of several quads
C10_Witness ==
  /\ pc = "exported"
  /\ width >= 3
  /\ height >= 2
  /\ FaceCount = 2 * (width - 1) * (height - 1)

====
